---- MODULE Spec2Model ----
(***************************************************************************)
(* Model of demo-corpus/bridge.py: the HTTP bridge that turns REST calls   *)
(* into MCP JSON-RPC tool calls.  Request threads share the session id and *)
(* the request-id counter, each behind its own lock; every blocking point  *)
(* of a handler (lock acquisition, outbound HTTP call) is a separate step. *)
(* Python dicts are TLA+ records, "key in d" is key \in DOMAIN d.          *)
(***************************************************************************)
EXTENDS Integers, Sequences, FiniteSets, TLC

\* ---- bounds of the model ----
NumThreads == 2
MaxRequests == 2
MaxHits == 4

Threads == 1..NumThreads
NoThread == 0

\* ---- Python values ----
\* None in a string-valued slot (_session_id) and in a dict-valued slot.
None == "<None>"
NoneValue == [NoneType |-> TRUE]
IsNone(v) == "NoneType" \in DOMAIN v

\* dict.get(key, default)
Get(d, key, default) == IF key \in DOMAIN d THEN d[key] ELSE default

\* Truthiness of a str-or-None value: `if _session_id`, `if not query`.
Truthy(v) == v # None /\ v # ""

\* A Python 2-tuple, and isinstance(x, tuple).
Tuple(a, b) == [item0 |-> a, item1 |-> b]
IsTuple(x) == "item0" \in DOMAIN x

\* hits[:n]
Slice(s, n) == SubSeq(s, 1, IF Len(s) < n THEN Len(s) ELSE n)

\* sep.join(strs)
RECURSIVE Join(_, _)
Join(sep, strs) ==
    IF strs = << >> THEN ""
    ELSE IF Len(strs) = 1 THEN strs[1]
    ELSE strs[1] \o sep \o Join(sep, Tail(strs))

SelectText(content) == SelectSeq(content, LAMBDA c : Get(c, "type", None) = "text")

\* "\n".join(c.get("text", "") for c in content if c.get("type") == "text")
ContentText(content) ==
    LET texts == SelectText(content)
    IN  Join("\n", [i \in 1..Len(texts) |-> Get(texts[i], "text", "")])

\* ---- the locks: `with lock` blocks until nobody holds it ----
NoSessionLock(lock) == TRUE
SessionLockFree(lock) == lock = NoThread

NoIdLock(lock) == TRUE
IdLockFree(lock) == lock = NoThread

\* ---- _next_id: _request_id += 1 ----
Increment(v) == v + 1

VARIABLES
    _session_id,    \* global _session_id
    _session_lock,  \* holder of _session_lock, or NoThread
    _request_id,    \* global _request_id
    _id_lock,       \* holder of _id_lock, or NoThread
    pc,             \* where each request thread is
    route,          \* the route a thread is serving
    body,           \* request.json or {}
    caller,         \* who called _next_id: "initialize" or "tools/call"
    loaded,         \* the value _next_id read for its increment
    rid,            \* the value _next_id returned to its caller
    session_id,     \* _call_tool's local session_id
    tool,           \* _call_tool's tool_name
    args,           \* _call_tool's arguments
    hits,           \* the handler's hits
    todo,           \* what is left of `for h in hits[:3]`
    enriched,       \* the handler's enriched
    response,       \* the response of the thread's last request
    log,            \* history: the outbound requests of the thread's current request
    served,         \* history: requests accepted so far
    handshakes,     \* history: initialize requests sent
    failures,       \* history: initialize requests that raised
    sessionless,    \* history: initialize responses that carried no session id
    issued,         \* history: the values _next_id returned, in order of return
    ensured         \* history: the values _ensure_session returned

shared == <<_session_id, _session_lock, _request_id, _id_lock>>
locals == <<route, body, caller, loaded, rid, session_id, tool, args, hits, todo, enriched, response>>
history == <<log, served, handshakes, failures, sessionless, issued, ensured>>
vars == <<shared, pc, locals, history>>

\* ---- the upstream server: what requests.post can come back with ----
\* requests.post raises (connection refused, timeout), or returns a response
\* with a status code, headers and possibly a JSON body.
SessionHeader == "Mcp-Session-Id"
SessionIds == {"s1", "s2"}
NoHeaders == << >>
Unreachable == [raises |-> "ConnectionError"]
Status503 == [status_code |-> 503, headers |-> NoHeaders]
Ok(data) == [status_code |-> 200, headers |-> NoHeaders, json |-> data]
NotJson == [status_code |-> 200, headers |-> NoHeaders]
Pending == [pending |-> TRUE]

InitializeReplies ==
    {Unreachable, Status503, [status_code |-> 200, headers |-> NoHeaders]}
        \cup {[status_code |-> 200, headers |-> (SessionHeader :> s)] : s \in SessionIds}

Errors == {[code |-> -32000, message |-> "index not ready"],
           [code |-> -32602, message |-> "bad arguments"]}
AnError == [code |-> -32000, message |-> "index not ready"]

TextEntry(text) == [type |-> "text", text |-> text]

\* The search tool's ranking: scores are hundredths, deliberately not sorted,
\* and the spans cover a full line span, no span, a span without bounds and
\* a span of another kind.
Hit(i) ==
    LET file == "f" \o ToString(i) \o ".md"
    IN  CASE i % 4 = 1 -> [RelPath |-> file, Score |-> 50,
                           Span |-> [Kind |-> "lines", StartLine |-> 5, EndLine |-> 9]]
          [] i % 4 = 2 -> [RelPath |-> file, Score |-> 90]
          [] i % 4 = 3 -> [RelPath |-> file, Score |-> 20, Span |-> [Kind |-> "lines"]]
          [] OTHER     -> [RelPath |-> file, Score |-> 70, Span |-> [Kind |-> "chars"]]
Ranking(n) == [i \in 1..n |-> Hit(i)]

SearchText == <<TextEntry("hits")>>
SearchReplies ==
    {Unreachable, Status503, NotJson}
        \cup {Ok([error |-> e]) : e \in Errors}
        \cup {Ok([error |-> AnError, result |-> [content |-> SearchText]]),
              Ok([jsonrpc |-> "2.0"]),
              Ok([result |-> [content |-> SearchText]]),
              Ok([result |-> [content |-> SearchText, structuredContent |-> [k |-> 3]]])}
        \cup {Ok([result |-> [content |-> SearchText,
                              structuredContent |-> [hits |-> Ranking(n)]]]) : n \in 0..MaxHits}

\* What open_file returns for its arguments: the text shows the span asked for.
FileText(a) ==
    a.rel_path \o (IF "start_line" \in DOMAIN a
                   THEN ":" \o ToString(a.start_line) \o "-" \o ToString(a.end_line)
                   ELSE "")
OpenFileReplies(a) ==
    {Unreachable, Status503, Ok([error |-> AnError]),
     Ok([result |-> [content |-> <<TextEntry(FileText(a))>>]])}

Listing == <<TextEntry("f1.md"), [type |-> "image", data |-> "png"], TextEntry("f2.md")>>
PassthroughReplies ==
    {Unreachable, NotJson, Ok([error |-> AnError]), Ok([jsonrpc |-> "2.0"]),
     Ok([result |-> [content |-> Listing, structuredContent |-> [count |-> 2]]])}

Replies(name, a) ==
    CASE name = "dir2mcp.search" -> SearchReplies
      [] name = "dir2mcp.open_file" -> OpenFileReplies(a)
      [] OTHER -> PassthroughReplies

\* requests.post raised instead of returning a response
PostRaises(resp) == "raises" \in DOMAIN resp
\* resp.raise_for_status() raises
RaiseForStatus(resp) == resp.status_code >= 400 /\ resp.status_code < 600
\* resp.json() raises
JsonRaises(resp) == "json" \notin DOMAIN resp

\* ---- inbound requests ----
SearchBodies == {<< >>, [query |-> ""], [query |-> "q"], [query |-> "q", k |-> 1]}
AskBodies == {<< >>, [question |-> ""], [question |-> "q"]}
NoResponse == [status |-> 0]

\* What Flask answers when a handler raises.
InternalError(exc) == [status |-> 500, exception |-> exc]

Init ==
    /\ _session_id = None
    /\ _session_lock = NoThread
    /\ _request_id = 0
    /\ _id_lock = NoThread
    /\ pc = [t \in Threads |-> "idle"]
    /\ route = [t \in Threads |-> ""]
    /\ body = [t \in Threads |-> << >>]
    /\ caller = [t \in Threads |-> ""]
    /\ loaded = [t \in Threads |-> 0]
    /\ rid = [t \in Threads |-> 0]
    /\ session_id = [t \in Threads |-> None]
    /\ tool = [t \in Threads |-> ""]
    /\ args = [t \in Threads |-> << >>]
    /\ hits = [t \in Threads |-> << >>]
    /\ todo = [t \in Threads |-> << >>]
    /\ enriched = [t \in Threads |-> << >>]
    /\ response = [t \in Threads |-> NoResponse]
    /\ log = [t \in Threads |-> << >>]
    /\ served = 0
    /\ handshakes = 0
    /\ failures = 0
    /\ sessionless = 0
    /\ issued = << >>
    /\ ensured = {}

\* The handler returns r (or raises, and Flask answers r): the locals of the
\* calls it made are gone.
Return(t, r) ==
    /\ response' = [response EXCEPT ![t] = r]
    /\ pc' = [pc EXCEPT ![t] = "idle"]
    /\ caller' = [caller EXCEPT ![t] = ""]
    /\ loaded' = [loaded EXCEPT ![t] = 0]
    /\ rid' = [rid EXCEPT ![t] = 0]
    /\ session_id' = [session_id EXCEPT ![t] = None]
    /\ tool' = [tool EXCEPT ![t] = ""]
    /\ args' = [args EXCEPT ![t] = << >>]

\* ---- _next_id ----
\* `with _id_lock` lets the thread in, and `_request_id += 1` reads the counter.
LoadRequestId(t) ==
    /\ pc[t] = "id_lock"
    /\ IdLockFree(_id_lock)
    /\ _id_lock' = t
    /\ loaded' = [loaded EXCEPT ![t] = _request_id]
    /\ pc' = [pc EXCEPT ![t] = "id_store"]
    /\ UNCHANGED <<_session_id, _session_lock, _request_id, route, body, caller, rid,
                   session_id, tool, args, hits, todo, enriched, response, history>>

\* `_request_id += 1` writes the counter.
StoreRequestId(t) ==
    /\ pc[t] = "id_store"
    /\ _request_id' = Increment(loaded[t])
    /\ pc' = [pc EXCEPT ![t] = "id_return"]
    /\ UNCHANGED <<_session_id, _session_lock, _id_lock, locals, history>>

\* `return _request_id`, and the with block releases the lock.
\* What the exit of `with _id_lock` leaves in the lock.
IdLockKept(holder) == holder
ReleaseIdLock(holder) == NoThread

ReturnRequestId(t) ==
    /\ pc[t] = "id_return"
    /\ rid' = [rid EXCEPT ![t] = _request_id]
    /\ issued' = Append(issued, _request_id)
    /\ _id_lock' = ReleaseIdLock(t)
    /\ pc' = [pc EXCEPT ![t] = IF caller[t] = "initialize" THEN "init_post" ELSE "tool_post"]
    /\ UNCHANGED <<_session_id, _session_lock, _request_id, route, body, caller, loaded,
                   session_id, tool, args, hits, todo, enriched, response,
                   log, served, handshakes, failures, sessionless, ensured>>

\* ---- _ensure_session ----
\* `with _session_lock` lets the thread in; `if _session_id: return _session_id`
\* returns the cached identifier and releases the lock, else the thread keeps
\* the lock and goes on to the handshake, whose id it asks _next_id for.
\* What the exit of `with _session_lock` leaves in the lock when the body
\* returned: the return statement is inside the block, the call that follows
\* in _call_tool is outside.
HeldAcrossCall(holder) == holder
ReleaseOnReturn(holder) == NoThread

NeverCached(id) == FALSE
\* `if _session_id`
Cached(id) == Truthy(id)

CheckSession(t) ==
    /\ pc[t] = "session_lock"
    /\ SessionLockFree(_session_lock)
    /\ IF Cached(_session_id)
       THEN /\ session_id' = [session_id EXCEPT ![t] = _session_id]
            /\ ensured' = ensured \cup {_session_id}
            /\ _session_lock' = ReleaseOnReturn(t)
            /\ caller' = [caller EXCEPT ![t] = "tools/call"]
       ELSE /\ caller' = [caller EXCEPT ![t] = "initialize"]
            /\ _session_lock' = t
            /\ UNCHANGED <<session_id, ensured>>
    /\ pc' = [pc EXCEPT ![t] = "id_lock"]
    /\ UNCHANGED <<_session_id, _request_id, _id_lock, route, body, loaded, rid, tool, args,
                   hits, todo, enriched, response, log, served, handshakes, failures,
                   sessionless, issued>>

\* The log keeps what the properties read of a request; its id is rid[t].
InitializeRequest == [method |-> "initialize", reply |-> Pending]

PostInitialize(t) ==
    /\ pc[t] = "init_post"
    /\ log' = [log EXCEPT ![t] = Append(@, InitializeRequest)]
    /\ handshakes' = handshakes + 1
    /\ pc' = [pc EXCEPT ![t] = "init_wait"]
    /\ UNCHANGED <<shared, locals, served, failures, sessionless, issued, ensured>>

Answered(l, resp) == [l EXCEPT ![Len(l)].reply = resp]

\* What the exit of `with _session_lock` leaves in the lock when the body raised.
KeepLock(holder) == holder
ReleaseOnRaise(holder) == NoThread

\* The exception the handshake raises for this reply, None when it raises
\* nothing: the body of the response is never read.
InitializeException(resp) ==
    IF PostRaises(resp) THEN resp.raises
    ELSE IF RaiseForStatus(resp) THEN "HTTPError"
    ELSE None

\* requests.post or raise_for_status raises: the with block releases the lock
\* and the exception leaves the handler.
InitializeRaises(t) ==
    /\ pc[t] = "init_wait"
    /\ \E resp \in InitializeReplies :
        /\ InitializeException(resp) # None
        /\ log' = [log EXCEPT ![t] = Answered(@, resp)]
        /\ Return(t, InternalError(InitializeException(resp)))
    /\ _session_lock' = ReleaseOnRaise(_session_lock)
    /\ failures' = failures + 1
    /\ UNCHANGED <<_session_id, _request_id, _id_lock, route, body, hits, todo, enriched,
                   served, handshakes, sessionless, issued, ensured>>

\* resp.headers.get("Mcp-Session-Id", "")
HeaderSession(headers) == Get(headers, SessionHeader, "")

InitializeReturns(t) ==
    /\ pc[t] = "init_wait"
    /\ \E resp \in InitializeReplies :
        /\ InitializeException(resp) = None
        /\ log' = [log EXCEPT ![t] = Answered(@, resp)]
        /\ _session_id' = HeaderSession(resp.headers)
        /\ session_id' = [session_id EXCEPT ![t] = HeaderSession(resp.headers)]
        /\ ensured' = ensured \cup {HeaderSession(resp.headers)}
        /\ sessionless' = IF Truthy(HeaderSession(resp.headers)) THEN sessionless
                          ELSE sessionless + 1
    /\ _session_lock' = ReleaseOnReturn(t)
    /\ caller' = [caller EXCEPT ![t] = "tools/call"]
    /\ pc' = [pc EXCEPT ![t] = "id_lock"]
    /\ UNCHANGED <<_request_id, _id_lock, route, body, loaded, rid, tool, args, hits, todo,
                   enriched, response, served, handshakes, failures, issued>>

\* ---- _call_tool ----
ToolCallRequest(session, name, a) ==
    [method |-> "tools/call", session |-> session, name |-> name, arguments |-> a,
     reply |-> Pending]

PostToolCall(t) ==
    /\ pc[t] = "tool_post"
    /\ log' = [log EXCEPT ![t] =
                  Append(@, ToolCallRequest(session_id[t], tool[t], args[t]))]
    /\ pc' = [pc EXCEPT ![t] = "tool_wait"]
    /\ UNCHANGED <<shared, locals, served, handshakes, failures, sessionless, issued, ensured>>

\* The exception the call raises for this reply, None when it raises nothing.
ToolCallException(resp) ==
    IF PostRaises(resp) THEN resp.raises
    ELSE IF RaiseForStatus(resp) THEN "HTTPError"
    ELSE IF JsonRaises(resp) THEN "JSONDecodeError"
    ELSE None

\* What _call_tool returns for the decoded body.
CallToolResult(data) ==
    IF "error" \in DOMAIN data
    THEN Tuple([error |-> data.error], 500)
    ELSE LET result == Get(data, "result", << >>)
         IN  [result |-> ContentText(Get(result, "content", << >>)),
              structured |-> Get(result, "structuredContent", NoneValue)]

\* requests.post, raise_for_status or resp.json() raises: nothing catches it.
ToolCallRaises(t) ==
    /\ pc[t] = "tool_wait"
    /\ \E resp \in Replies(tool[t], args[t]) :
        /\ ToolCallException(resp) # None
        /\ log' = [log EXCEPT ![t] = Answered(@, resp)]
        /\ Return(t, InternalError(ToolCallException(resp)))
    /\ UNCHANGED <<shared, route, body, hits, todo, enriched, served, handshakes, failures,
                   sessionless, issued, ensured>>

\* ---- the handlers ----
\* jsonify(result[0]), result[1] for a tuple
PayloadOnly(result) == [status |-> 200, json |-> result.item0]
TupleResponse(result) == [status |-> result.item1, json |-> result.item0]
JsonResponse(data) == [status |-> 200, json |-> data]

\* A thread takes the next inbound request; what the last one left is dropped.
Accept(t, path, b) ==
    /\ pc[t] = "idle"
    /\ served < MaxRequests
    /\ served' = served + 1
    /\ route' = [route EXCEPT ![t] = path]
    /\ body' = [body EXCEPT ![t] = b]
    /\ log' = [log EXCEPT ![t] = << >>]
    /\ hits' = [hits EXCEPT ![t] = << >>]
    /\ todo' = [todo EXCEPT ![t] = << >>]
    /\ enriched' = [enriched EXCEPT ![t] = << >>]
    /\ UNCHANGED <<shared, handshakes, failures, sessionless, issued, ensured>>

\* The handler enters _call_tool, whose first statement is _ensure_session().
CallTool(t, name, a) ==
    /\ pc' = [pc EXCEPT ![t] = "session_lock"]
    /\ tool' = [tool EXCEPT ![t] = name]
    /\ args' = [args EXCEPT ![t] = a]
    /\ UNCHANGED <<caller, loaded, rid, session_id>>

\* The first call of a handler: the thread's last response has been sent.
FirstCall(t, name, a) ==
    /\ CallTool(t, name, a)
    /\ response' = [response EXCEPT ![t] = NoResponse]

\* What /health reports: a constant, whatever the state of the session.
SessionStatus == [status |-> IF Truthy(_session_id) THEN "ok" ELSE "starting"]
HealthBody == [status |-> "ok"]

health(t) ==
    /\ Accept(t, "/health", << >>)
    /\ Return(t, JsonResponse(HealthBody))

AcceptAll(q) == FALSE
\* `if not query`
Missing(q) == ~Truthy(q)

search(t) ==
    \E b \in SearchBodies :
        LET query == Get(b, "query", "")
        IN  /\ Accept(t, "/search", b)
            /\ IF Missing(query)
               THEN Return(t, [status |-> 400, json |-> [error |-> "query is required"]])
               ELSE FirstCall(t, "dir2mcp.search", [query |-> query, k |-> Get(b, "k", 3)])

ask(t) ==
    \E b \in AskBodies :
        LET question == Get(b, "question", "")
        IN  /\ Accept(t, "/ask", b)
            /\ IF Missing(question)
               THEN Return(t, [status |-> 400, json |-> [error |-> "question is required"]])
               ELSE FirstCall(t, "dir2mcp.search", [query |-> question, k |-> 3])

list_files(t) ==
    /\ Accept(t, "/list_files", << >>)
    /\ FirstCall(t, "dir2mcp.list_files", << >>)

stats(t) ==
    /\ Accept(t, "/stats", << >>)
    /\ FirstCall(t, "dir2mcp.stats", << >>)

\* /list_files and /stats: the tool's result or its error, as it is.
PassthroughReturns(t) ==
    /\ pc[t] = "tool_wait"
    /\ route[t] \in {"/list_files", "/stats"}
    /\ \E resp \in Replies(tool[t], args[t]) :
        /\ ToolCallException(resp) = None
        /\ log' = [log EXCEPT ![t] = Answered(@, resp)]
        /\ LET result == CallToolResult(resp.json)
           IN  Return(t, IF IsTuple(result) THEN TupleResponse(result)
                         ELSE JsonResponse(result))
    /\ UNCHANGED <<shared, route, body, hits, todo, enriched, served, handshakes, failures,
                   sessionless, issued, ensured>>

\* ---- the enrichment of /search and /ask ----
MaxEnriched == 3
MaxChars == 3000
DefaultStartLine == 1
DefaultEndLine == 100

\* The arguments of dir2mcp.open_file for hit h.
OpenFileArgs(h) ==
    LET span == Get(h, "Span", << >>)
        base == [rel_path |-> Get(h, "RelPath", ""), max_chars |-> MaxChars]
    IN  IF Get(span, "Kind", None) = "lines"
        THEN base @@ [start_line |-> Get(span, "StartLine", DefaultStartLine),
                      end_line |-> Get(span, "EndLine", DefaultEndLine)]
        ELSE base

\* source.get("result", "") if not isinstance(source, tuple) else ""
ErrorAsText(source) == IF IsTuple(source) THEN source.item0.error.message
                       ELSE Get(source, "result", "")
SourceText(source) == IF IsTuple(source) THEN "" ELSE Get(source, "result", "")

\* The entry appended to enriched for hit h.
Enriched(path, h, text) ==
    IF path = "/search"
    THEN [file |-> Get(h, "RelPath", ""), score |-> Get(h, "Score", 0), content |-> text]
    ELSE [file |-> Get(h, "RelPath", ""), content |-> text]

\* f"{score:.0%}" for a score held in hundredths
Percent(score) == ToString(score) \o "%"

\* One block of the composite text.
Block(path, e) ==
    IF path = "/search"
    THEN "=== " \o e.file \o " (relevance: " \o Percent(e.score) \o ") ===\n" \o e.content
    ELSE "=== Source: " \o e.file \o " ===\n" \o e.content

Blocks(path, es) == [i \in 1..Len(es) |-> Block(path, es[i])]

\* The response once the loop over hits[:3] is over.
Composite(path, b, es) ==
    IF path = "/search"
    THEN JsonResponse([result |-> Join("\n\n", Blocks(path, es))])
    ELSE JsonResponse([result |-> "Question: " \o Get(b, "question", "")
                                    \o "\n\nRelevant document content:\n\n"
                                    \o Join("\n\n", Blocks(path, es))])

\* hits[:3]
Enrichable(hs) == Slice(hs, MaxEnriched)

\* `for h in ...` moves on to the next hit once the body has run for h.
SameHitAgain(rest) == rest
NextHits(rest) == Tail(rest)

\* The loop takes its next hit, or the handler returns the composite.
Continue(t, es, rest) ==
    /\ enriched' = [enriched EXCEPT ![t] = es]
    /\ todo' = [todo EXCEPT ![t] = rest]
    /\ IF rest = << >>
       THEN Return(t, Composite(route[t], body[t], es))
       ELSE /\ CallTool(t, "dir2mcp.open_file", OpenFileArgs(Head(rest)))
            /\ UNCHANGED response

\* The dir2mcp.search call of /search or /ask returned.
PrimaryReturns(t) ==
    /\ pc[t] = "tool_wait"
    /\ tool[t] = "dir2mcp.search"
    /\ \E resp \in Replies(tool[t], args[t]) :
        /\ ToolCallException(resp) = None
        /\ log' = [log EXCEPT ![t] = Answered(@, resp)]
        /\ LET result == CallToolResult(resp.json)
           IN  IF IsTuple(result)
               THEN /\ Return(t, TupleResponse(result))
                    /\ UNCHANGED <<hits, todo, enriched>>
               ELSE IF IsNone(Get(result, "structured", << >>))
               THEN \* None.get("hits", [])
                    /\ Return(t, InternalError("AttributeError"))
                    /\ UNCHANGED <<hits, todo, enriched>>
               ELSE /\ hits' = [hits EXCEPT ![t] =
                                   Get(Get(result, "structured", << >>), "hits", << >>)]
                    /\ Continue(t, << >>, Enrichable(hits'[t]))
    /\ UNCHANGED <<shared, route, body, served, handshakes, failures, sessionless, issued,
                   ensured>>

\* The dir2mcp.open_file call for the hit at the head of the loop returned.
SecondaryReturns(t) ==
    /\ pc[t] = "tool_wait"
    /\ tool[t] = "dir2mcp.open_file"
    /\ \E resp \in Replies(tool[t], args[t]) :
        /\ ToolCallException(resp) = None
        /\ log' = [log EXCEPT ![t] = Answered(@, resp)]
        /\ LET source == CallToolResult(resp.json)
               text == SourceText(source)
           IN  Continue(t, Append(enriched[t], Enriched(route[t], Head(todo[t]), text)),
                        NextHits(todo[t]))
    /\ UNCHANGED <<shared, route, body, hits, served, handshakes, failures, sessionless,
                   issued, ensured>>

\* The steps of _ensure_session, _next_id and _call_tool.
Call(t) ==
    \/ CheckSession(t)
    \/ LoadRequestId(t)
    \/ StoreRequestId(t)
    \/ ReturnRequestId(t)
    \/ PostInitialize(t)
    \/ InitializeRaises(t)
    \/ InitializeReturns(t)
    \/ PostToolCall(t)
    \/ ToolCallRaises(t)

\* Every thread serves /health, /list_files and /stats concurrently.
Next ==
    \E t \in Threads :
        \/ health(t)
        \/ list_files(t)
        \/ stats(t)
        \/ Call(t)
        \/ PassthroughReturns(t)

Spec == Init /\ [][Next]_vars

\* The steps a thread takes by itself once the scheduler runs it.
Runs(t) == StoreRequestId(t) \/ ReturnRequestId(t) \/ PostInitialize(t) \/ PostToolCall(t)
\* An outbound call comes back or fails: requests.post has timeout=10 / 30.
Replied(t) ==
    InitializeRaises(t) \/ InitializeReturns(t) \/ ToolCallRaises(t) \/ PassthroughReturns(t)

\* A thread asks for a lock: `with _session_lock`, `with _id_lock`.
Acquires(t) == CheckSession(t) \/ LoadRequestId(t)

\* The threads all serve /list_files, the route that is one _call_tool and
\* nothing else (/stats is the same handler with another tool name, /health
\* takes no step in a request).
NextFair == \E t \in Threads : list_files(t) \/ Call(t) \/ PassthroughReturns(t)

\* The scheduler runs every thread that can run and every outbound call ends
\* (weak fairness); a lock is granted to a thread that finds it free again and
\* again (strong fairness). Nothing makes a new request arrive.
SpecFair ==
    /\ Init /\ [][NextFair]_vars
    /\ \A t \in Threads :
        /\ WF_vars(Runs(t) \/ Replied(t))
        /\ SF_vars(Acquires(t))

\* One thread serves every route, /search and /ask included, one request after
\* the other.
Enricher == CHOOSE t \in Threads : \A u \in Threads : t <= u
NextEnrich ==
    \/ health(Enricher)
    \/ search(Enricher)
    \/ ask(Enricher)
    \/ list_files(Enricher)
    \/ stats(Enricher)
    \/ Call(Enricher)
    \/ PassthroughReturns(Enricher)
    \/ PrimaryReturns(Enricher)
    \/ SecondaryReturns(Enricher)

SpecEnrich == Init /\ [][NextEnrich]_vars

\* ---- properties ----
Handshakes(l) == SelectSeq(l, LAMBDA m : m.method = "initialize")
ToolCalls(l) == SelectSeq(l, LAMBDA m : m.method = "tools/call")
OpenFileCalls(l) == SelectSeq(l, LAMBDA m : m.method = "tools/call" /\ m.name = "dir2mcp.open_file")

\* The handshakes that are on the wire.
InFlight == {t \in Threads : pc[t] = "init_wait"}
\* The handshakes that came back with a session identifier.
Established == handshakes - failures - sessionless - Cardinality(InFlight)
\* Thread t is inside the `with _session_lock` block.
InSessionBlock(t) ==
    \/ pc[t] \in {"init_post", "init_wait"}
    \/ pc[t] \in {"id_lock", "id_store", "id_return"} /\ caller[t] = "initialize"
\* Thread t is past _ensure_session, which returned session_id[t] to it.
PastEnsure(t) ==
    \/ pc[t] \in {"tool_post", "tool_wait"}
    \/ pc[t] \in {"id_lock", "id_store", "id_return"} /\ caller[t] = "tools/call"

\* C1, as claimed: racing first callers send exactly one initialize handshake
\* and all of them get the same session identifier from _ensure_session.
C1_ExactlyOneHandshake ==
    /\ handshakes <= 1
    /\ Cardinality(ensured) <= 1
    /\ (ensured # {} => handshakes = 1)

\* C1, amended: however the callers race and whatever the handshakes come back
\* with, at most one handshake ever comes back with a session identifier (the
\* others raised or carried none), that identifier is the stored one, and
\* _ensure_session returns nothing but it or the empty string of a response
\* without identifier.
C1_OneSessionEstablished ==
    /\ Established <= 1
    /\ Cardinality(ensured \ {""}) <= 1
    /\ ensured \ {""} \subseteq {_session_id}
    /\ (Truthy(_session_id) => Established = 1)

\* Two callers raced: one sent the only handshake, the other waited for the
\* guard and got the same identifier without a handshake of its own.
C1_Witness ==
    /\ handshakes = 1
    /\ \E t1, t2 \in Threads :
        /\ t1 # t2
        /\ PastEnsure(t1) /\ PastEnsure(t2)
        /\ Len(Handshakes(log[t1])) = 1
        /\ Handshakes(log[t2]) = << >>
        /\ session_id[t1] \in SessionIds
        /\ session_id[t2] = session_id[t1]

\* C2: every value _next_id returns is strictly greater than every value it
\* returned before, whichever thread asked and whatever became of the call the
\* identifier was for; so no identifier is issued twice.
C2_IdsStrictlyIncrease ==
    \A i, j \in 1..Len(issued) : i < j => issued[i] < issued[j]

\* Two threads are in _next_id at once, one waiting for the id lock the other
\* holds in the middle of its increment, after an identifier has been issued.
C2_Witness ==
    /\ Len(issued) >= 1
    /\ \E t1, t2 \in Threads :
        /\ t1 # t2
        /\ pc[t1] = "id_lock"
        /\ pc[t2] = "id_store"
        /\ _id_lock = t2

\* The step in which the handshake of thread t raises.
HandshakeRaises(t) == pc[t] = "init_wait" /\ pc'[t] = "idle"

\* C3: a handshake that fails releases the session guard and leaves the session
\* unset; the guard is never left held by a thread that is outside
\* _ensure_session; and a caller that finds the session unset under the guard
\* goes on to a handshake of its own.
C3_FailedHandshakeReleases ==
    /\ [](_session_lock # NoThread => InSessionBlock(_session_lock))
    /\ [][\A t \in Threads : HandshakeRaises(t) =>
            /\ _session_lock' = NoThread
            /\ _session_id' = _session_id
            /\ ~Truthy(_session_id')]_vars
    /\ [][\A t \in Threads :
            (pc[t] = "session_lock" /\ pc'[t] # pc[t] /\ ~Truthy(_session_id)) =>
                /\ caller'[t] = "initialize"
                /\ _session_lock' = t
                /\ pc'[t] = "id_lock"]_vars

\* After a failed handshake another handshake is on the wire.
C3_Witness ==
    /\ failures >= 1
    /\ _session_id = None
    /\ \E t \in Threads : pc[t] = "init_wait" /\ _session_lock = t

\* The handshake response has a success status and no session identifier.
Sessionless(resp) ==
    IF "status_code" \in DOMAIN resp
    THEN resp.status_code = 200 /\ SessionHeader \notin DOMAIN resp.headers
    ELSE FALSE
\* The handshake failed at the transport or came back with an error status.
Unavailable(resp) ==
    IF "raises" \in DOMAIN resp THEN TRUE
    ELSE IF "status_code" \in DOMAIN resp THEN resp.status_code # 200
    ELSE FALSE

\* C4, as claimed: a handshake response without session identifier makes
\* _ensure_session fail with ProtocolError, so the request ends there; a
\* transport error or error status makes it fail with the transport's error.
C4_SessionlessHandshakeFails ==
    \A t \in Threads : \A i \in 1..Len(log[t]) :
        /\ (log[t][i].method = "initialize" /\ Sessionless(log[t][i].reply)) =>
               /\ response[t] = InternalError("ProtocolError")
               /\ Len(log[t]) = i
        /\ (log[t][i].method = "initialize" /\ Unavailable(log[t][i].reply)) =>
               /\ response[t] \in {InternalError("ConnectionError"), InternalError("HTTPError")}
               /\ Len(log[t]) = i

\* C5, as claimed: once _ensure_session has returned to anybody, no handshake is
\* sent any more, the stored session never changes and no other identifier is
\* ever returned.
C5_CachedForever ==
    [][ensured # {} =>
          /\ handshakes' = handshakes
          /\ _session_id' = _session_id
          /\ ensured' = ensured]_vars

\* ---- properties of /search and /ask ----
Enriching == {"/search", "/ask"}
\* The required field of the route's body.
Required(path) == IF path = "/search" THEN "query" ELSE "question"
\* Thread t has answered its request.
Answered200(t) == pc[t] = "idle" /\ response[t].status = 200
Finished(t) == pc[t] = "idle" /\ response[t] # NoResponse

\* The reply is a decoded body / a JSON-RPC error / a result.
HasJson(resp) == "json" \in DOMAIN resp
IsRpcError(resp) ==
    IF HasJson(resp) THEN "error" \in DOMAIN resp.json /\ "result" \notin DOMAIN resp.json
    ELSE FALSE
IsRpcResult(resp) ==
    IF HasJson(resp) THEN "result" \in DOMAIN resp.json /\ "error" \notin DOMAIN resp.json
    ELSE FALSE

\* The step in which thread t rejects a request that lacks its required field.
Rejects(t) ==
    /\ served' = served + 1
    /\ route'[t] \in Enriching
    /\ ~Truthy(Get(body'[t], Required(route'[t]), ""))

\* C6: a /search without query or /ask without question (absent or empty) is
\* answered 400 with an error body in the step that accepts it: nothing is sent
\* upstream, and the session, the counter and both locks stay as they were.
C6_InvalidRequestRejected ==
    /\ [](\A t \in Threads :
            (route[t] \in Enriching /\ ~Truthy(Get(body[t], Required(route[t]), ""))) =>
                /\ pc[t] = "idle"
                /\ response[t].status = 400
                /\ DOMAIN response[t].json = {"error"}
                /\ log[t] = << >>)
    /\ [][\A t \in Threads : Rejects(t) =>
            /\ UNCHANGED <<shared, handshakes, issued, ensured>>
            /\ response'[t].status = 400]_vars

\* POST /search with body {} got its 400 and the upstream has never been contacted.
C6_Witness ==
    \E t \in Threads :
        /\ route[t] = "/search"
        /\ body[t] = << >>
        /\ response[t] = [status |-> 400, json |-> [error |-> "query is required"]]
        /\ _session_id = None
        /\ _request_id = 0
        /\ handshakes = 0

\* The reply to the dir2mcp.search call of thread t's request (Pending if none).
PrimaryReply(t) ==
    LET calls == ToolCalls(log[t])
    IN  IF calls = << >> THEN Pending ELSE calls[1].reply

\* C7: when the dir2mcp.search call of a /search or /ask request comes back as
\* a JSON-RPC error, the request is answered 500 with exactly that error and no
\* dir2mcp.open_file call is sent.
C7_PrimaryErrorPassedThrough ==
    \A t \in Threads :
        (route[t] \in Enriching /\ IsRpcError(PrimaryReply(t))) =>
            /\ pc[t] = "idle"
            /\ response[t] = [status |-> 500, json |-> [error |-> PrimaryReply(t).json.error]]
            /\ Len(ToolCalls(log[t])) = 1

C7_Witness ==
    \E t \in Threads :
        /\ route[t] = "/ask"
        /\ IsRpcError(PrimaryReply(t))
        /\ response[t].status = 500
        /\ response[t].json.error.code = -32602

\* What the open_file replies of thread t's request make of its hits.
Min(a, b) == IF a < b THEN a ELSE b
ExpectedEnriched(t) ==
    LET calls == OpenFileCalls(log[t])
    IN  [i \in 1..Len(calls) |->
            Enriched(route[t], hits[t][i],
                     IF IsRpcError(calls[i].reply) THEN ""
                     ELSE ContentText(calls[i].reply.json.result.content))]

\* Every hit to enrich got a reply to its open_file call, an error or a result.
AllFetched(t) ==
    LET calls == OpenFileCalls(log[t])
    IN  /\ Len(calls) = Min(MaxEnriched, Len(hits[t]))
        /\ \A i \in 1..Len(calls) : IsRpcError(calls[i].reply) \/ IsRpcResult(calls[i].reply)
SomeFetchFailed(t) ==
    \E i \in 1..Len(OpenFileCalls(log[t])) : IsRpcError(OpenFileCalls(log[t])[i].reply)

\* The step in which an open_file call of thread t comes back as a JSON-RPC error.
FetchFails(t) ==
    /\ pc[t] = "tool_wait"
    /\ tool[t] = "dir2mcp.open_file"
    /\ pc'[t] # pc[t]
    /\ IsRpcError(log'[t][Len(log'[t])].reply)

\* C8: when open_file calls of a request come back as JSON-RPC errors and the
\* others as results, the request is answered 200 with one block per enriched
\* hit in hit order, the failed hits with empty content and the others with
\* what was fetched; and after a failed fetch the loop goes on to the call for
\* the next hit.
C8_FailedFetchGivesEmptyContent ==
    /\ [](\A t \in Threads :
            (route[t] \in Enriching /\ AllFetched(t) /\ SomeFetchFailed(t)) =>
                /\ pc[t] = "idle"
                /\ enriched[t] = ExpectedEnriched(t)
                /\ Len(enriched[t]) = Min(MaxEnriched, Len(hits[t]))
                /\ response[t] = Composite(route[t], body[t], ExpectedEnriched(t)))
    /\ [][\A t \in Threads : FetchFails(t) =>
            /\ enriched'[t] = Append(enriched[t], Enriched(route[t], Head(todo[t]), ""))
            /\ IF Len(todo[t]) > 1
               THEN /\ pc'[t] = "session_lock"
                    /\ tool'[t] = "dir2mcp.open_file"
                    /\ args'[t] = OpenFileArgs(todo[t][2])
               ELSE response'[t].status = 200]_vars

\* The fetch for hit 2 failed, those for hits 1 and 3 succeeded, and /search
\* answered with three blocks.
C8_Witness ==
    \E t \in Threads :
        /\ route[t] = "/search"
        /\ Answered200(t)
        /\ Len(hits[t]) > MaxEnriched
        /\ Len(enriched[t]) = MaxEnriched
        /\ enriched[t][1].content # ""
        /\ enriched[t][2].content = ""
        /\ enriched[t][3].content # ""
        /\ IsRpcError(OpenFileCalls(log[t])[2].reply)

\* The search result carries no hits: no structured payload, one without a
\* hits array, or an empty hits array.
NoHits(resp) ==
    IF IsRpcResult(resp)
    THEN Get(Get(resp.json.result, "structuredContent", << >>), "hits", << >>) = << >>
    ELSE FALSE

\* C9, as claimed: a successful search without hits (no structured payload, no
\* hits array or an empty one) is zero matches: the request is answered 200 and
\* sends no open_file call.
C9_NoHitsIsSuccess ==
    \A t \in Threads :
        (route[t] \in Enriching /\ NoHits(PrimaryReply(t))) =>
            /\ Answered200(t)
            /\ OpenFileCalls(log[t]) = << >>

\* The hits of a successful search result.
ReturnedHits(resp) == Get(Get(resp.json.result, "structuredContent", << >>), "hits", << >>)

\* C10, as claimed: a request whose search returned n hits sends, by the time
\* it is answered, exactly min(3, n) open_file calls, one per hit in the order
\* of the hits, and its blocks are in that order.
C10_OneFetchPerHitInOrder ==
    \A t \in Threads :
        (route[t] \in Enriching /\ Finished(t) /\ IsRpcResult(PrimaryReply(t))) =>
            LET n == Len(ReturnedHits(PrimaryReply(t)))
                calls == OpenFileCalls(log[t])
            IN  /\ Len(calls) = Min(MaxEnriched, n)
                /\ \A i \in 1..Len(calls) :
                       calls[i].arguments.rel_path = ReturnedHits(PrimaryReply(t))[i].RelPath
                /\ Len(enriched[t]) = Min(MaxEnriched, n)
                /\ \A i \in 1..Len(enriched[t]) :
                       enriched[t][i].file = ReturnedHits(PrimaryReply(t))[i].RelPath

\* The dir2mcp.search calls of a request.
SearchCalls(l) ==
    SelectSeq(l, LAMBDA m : m.method = "tools/call" /\ m.name = "dir2mcp.search")
\* The reply made _call_tool raise.
Raised(resp) ==
    IF resp = Pending THEN FALSE ELSE ToolCallException(resp) # None

\* C11: no tool call is sent twice. A request sends at most one tools/call on
\* the routes that forward one tool, at most one dir2mcp.search on /search and
\* /ask, and its i-th dir2mcp.open_file call is the one for its i-th hit, at
\* most min(3, hits) of them; a call whose reply made _call_tool raise, and a
\* search that came back as an error, is the last thing the request sent.
C11_NoSilentRetry ==
    \A t \in Threads :
        LET calls == OpenFileCalls(log[t])
            sent == ToolCalls(log[t])
        IN  /\ Len(SearchCalls(log[t])) <= 1
            /\ route[t] \notin Enriching => Len(sent) <= 1
            /\ Len(calls) <= Min(MaxEnriched, Len(hits[t]))
            /\ \A i \in 1..Len(calls) : calls[i].arguments = OpenFileArgs(hits[t][i])
            /\ \A i, j \in 1..Len(calls) :
                   calls[i].arguments.rel_path = calls[j].arguments.rel_path => i = j
            /\ \A i \in 1..Len(sent) :
                   (Raised(sent[i].reply)
                    \/ (sent[i].name = "dir2mcp.search" /\ ~IsRpcResult(sent[i].reply)
                        /\ sent[i].reply # Pending)) =>
                       /\ i = Len(sent)
                       /\ log[t][Len(log[t])] = sent[i]
                       /\ Finished(t)

\* A /search request ended by the failure of its first open_file call, with
\* more hits left to enrich: the failed call was sent once and nothing after it.
C11_Witness ==
    \E t \in Threads :
        /\ route[t] = "/search"
        /\ Finished(t)
        /\ Len(hits[t]) >= 2
        /\ Len(SearchCalls(log[t])) = 1
        /\ Len(OpenFileCalls(log[t])) = 1
        /\ Raised(OpenFileCalls(log[t])[1].reply)

\* The decoded body carries both a result and an error, or neither.
Malformed(resp) ==
    IF HasJson(resp)
    THEN ("result" \in DOMAIN resp.json) <=> ("error" \in DOMAIN resp.json)
    ELSE FALSE

\* C12, as claimed: a tools/call response whose body has both a result and an
\* error, or neither, is malformed and ends the request in a decode error; it
\* gives neither a success nor the pass-through of the error payload.
C12_MalformedBodyIsDecodeError ==
    \A t \in Threads :
        \A i \in 1..Len(ToolCalls(log[t])) :
            Malformed(ToolCalls(log[t])[i].reply) =>
                /\ Finished(t)
                /\ response[t] = InternalError("JSONDecodeError")

\* The step in which thread t takes and answers a GET /health: a request is
\* taken, and no other thread is the one that took it.
HealthStep(t) ==
    /\ pc[t] = "idle"
    /\ served' = served + 1
    /\ route'[t] = "/health"
    /\ \A u \in Threads \ {t} : route'[u] = route[u] /\ pc'[u] = pc[u]

\* C13: GET /health can be answered whenever a thread is free to take a
\* request, whatever the state of the session and of the other threads; it
\* answers 200 {status: "ok"}, sends no outbound request, and leaves the session
\* identifier, both guards and the request id counter as they were.
C13_HealthTouchesNothing ==
    /\ [](\A t \in Threads : (pc[t] = "idle" /\ served < MaxRequests) => ENABLED health(t))
    /\ [][\A t \in Threads : HealthStep(t) =>
            /\ response'[t] = [status |-> 200, json |-> [status |-> "ok"]]
            /\ pc'[t] = "idle"
            /\ log'[t] = << >>
            /\ \A u \in Threads \ {t} : log'[u] = log[u] /\ response'[u] = response[u]
            /\ UNCHANGED <<_session_id, _session_lock, _request_id, _id_lock,
                           handshakes, issued>>]_vars

\* /health was answered on one thread while the handshake of another is on the
\* wire, the session still unset and the session guard held.
C13_Witness ==
    \E t, u \in Threads :
        /\ route[t] = "/health"
        /\ Finished(t)
        /\ response[t].status = 200
        /\ pc[u] = "init_wait"
        /\ _session_lock = u
        /\ ~Truthy(_session_id)

\* C14, as claimed: counting every handshake that was started, in flight,
\* succeeded or failed, the total never exceeds one.
C14_AtMostOneHandshakeEver == handshakes <= 1

\* C14, amended: counting every handshake that was started, apart from those
\* that raised and those that came back without a session identifier, the total
\* never exceeds one: while a handshake is on the wire or has brought an
\* identifier, no other is started.
C14_OneHandshakeBesidesFailed == handshakes - failures - sessionless <= 1

\* A second handshake has brought the session after the first one raised.
C14_Witness ==
    /\ handshakes = 2
    /\ failures = 1
    /\ InFlight = {}
    /\ _session_id \in SessionIds

\* C15, as claimed: when the open_file call for a hit fails at the transport
\* or with a non-2xx status, the hit gets empty content and the request is
\* still answered 200 with a block for every enriched hit.
C15_UnavailableFetchGivesEmptyContent ==
    \A t \in Threads :
        \A i \in 1..Len(OpenFileCalls(log[t])) :
            Unavailable(OpenFileCalls(log[t])[i].reply) =>
                /\ Len(enriched[t]) >= i
                /\ enriched[t][i].content = ""
                /\ Finished(t) =>
                       /\ Answered200(t)
                       /\ Len(enriched[t]) = Min(MaxEnriched, Len(hits[t]))

\* C16, as claimed: every tools/call carries a non-empty session identifier,
\* the one a handshake that came back before it brought and that is stored; no
\* tools/call is sent while no session is established.
C16_ToolCallsCarryIssuedSession ==
    \A t \in Threads :
        \A i \in 1..Len(ToolCalls(log[t])) :
            /\ Truthy(ToolCalls(log[t])[i].session)
            /\ ToolCalls(log[t])[i].session \in SessionIds
            /\ ToolCalls(log[t])[i].session = _session_id
            /\ Established >= 1

\* C17, as claimed: a request whose handshake raised or came back without a
\* session identifier ends there with a failure response: the handshake is the
\* last thing it sent, so it sends no tools/call and no second handshake, and
\* no request sends more than one handshake.
C17_FailedEstablishmentAborts ==
    \A t \in Threads :
        /\ Len(Handshakes(log[t])) <= 1
        /\ \A i \in 1..Len(log[t]) :
               (/\ log[t][i].method = "initialize"
                /\ (Unavailable(log[t][i].reply) \/ Sessionless(log[t][i].reply))) =>
                   /\ i = Len(log[t])
                   /\ Finished(t)
                   /\ response[t].status = 500

\* Thread t has its tools/call on the wire.
Calling(t) == pc[t] = "tool_wait"

\* C18: a thread that is past _ensure_session, up to and including the wait
\* for the reply to its tools/call, does not hold the session guard; so a
\* thread that asks for the guard while the others are in their tool calls or
\* idle gets it at once, however long those calls take.
C18_GuardNotHeldAcrossToolCall ==
    /\ \A t \in Threads : (PastEnsure(t) \/ pc[t] = "idle") => _session_lock # t
    /\ \A t \in Threads :
           (/\ pc[t] = "session_lock"
            /\ \A u \in Threads \ {t} : PastEnsure(u) \/ pc[u] = "idle") =>
               ENABLED CheckSession(t)

\* Every thread has a tools/call on the wire at the same time, under the
\* session one handshake brought.
C18_Witness ==
    /\ _session_id \in SessionIds
    /\ \A t \in Threads : Calling(t) /\ session_id[t] = _session_id
    /\ _session_lock = NoThread

\* Thread t is inside the `with _id_lock` block.
InIdBlock(t) == pc[t] \in {"id_store", "id_return"}

\* C19: under a fair scheduler, outbound calls that end and fair locks, every
\* request a thread has taken is eventually answered. The id guard is held only
\* inside _next_id and is never held by a thread that asks for the session
\* guard; when the handshake's _next_id runs, the session guard is held by the
\* same thread; an idle thread holds no guard; and as long as a thread is in a
\* request some thread can take a step.
C19_EveryRequestFinishes ==
    /\ \A t \in Threads : (pc[t] # "idle") ~> Finished(t)
    /\ [](\A t \in Threads :
            /\ _id_lock = t <=> InIdBlock(t)
            /\ pc[t] = "session_lock" => (_id_lock # t /\ _session_lock # t)
            /\ (InIdBlock(t) /\ caller[t] = "initialize") => _session_lock = t
            /\ pc[t] = "idle" => (_session_lock # t /\ _id_lock # t))
    /\ []((\E t \in Threads : pc[t] # "idle") =>
            ENABLED (\E t \in Threads : Runs(t) \/ Replied(t) \/ Acquires(t)))

\* After the handshake of one request failed and the request was answered 500,
\* another thread has got the session guard and is inside the _next_id of its
\* own handshake, holding the id guard inside the session guard.
C19_Witness ==
    \E t, u \in Threads :
        /\ failures = 1
        /\ Finished(t)
        /\ response[t].status = 500
        /\ Handshakes(log[t]) # << >>
        /\ _session_lock = u
        /\ _id_lock = u
        /\ InIdBlock(u)

\* C20: at every moment at most one initialize handshake is on the wire, and
\* the thread that is about to send a handshake or waits for its reply holds
\* the session guard.
C20_HandshakesNeverOverlap ==
    /\ Cardinality(InFlight) <= 1
    /\ \A t \in Threads : pc[t] \in {"init_post", "init_wait"} => _session_lock = t

\* A handshake is on the wire while another thread, which also found no
\* session to use, waits for the session guard.
C20_Witness ==
    \E t, u \in Threads :
        /\ pc[t] = "init_wait"
        /\ pc[u] = "session_lock"
        /\ ~Truthy(_session_id)
        /\ handshakes >= 1

====
